---- MODULE Spec2Model ----
(***************************************************************************)
(* Model of src/tool-handlers/workflow-tools.ts: the seven n8n workflow    *)
(* tool handlers, handle_validation_error and format_output.               *)
(*                                                                         *)
(* JavaScript values are modelled by what the handlers do with them:       *)
(*   - args is a field mapping: a record whose DOMAIN is the set of fields *)
(*     the caller supplied (a missing field reads as undefined);           *)
(*   - a thrown value is a record [k, name, message, s]; k is the kind     *)
(*     ("null", "undefined", "string" for a thrown primitive string,       *)
(*     "object" for an Error-like object);                                 *)
(*   - a .message is a tagged value [t, v], t in "undefined", "string",    *)
(*     "number";                                                           *)
(*   - texts are TLA+ strings, built with \o exactly as the template       *)
(*     literals build them.                                                *)
(***************************************************************************)
EXTENDS Integers, Sequences, FiniteSets, TLC

VARIABLES pc, tool, args, cfg, calls, outcome

vars == <<pc, tool, args, cfg, calls, outcome>>

-----------------------------------------------------------------------------
(* Bounds of the model.                                                    *)

\* Longest error message, in words of Vocabulary.
MaxWords == 3

\* Longest list the API Client returns from list_workflows.
MaxWorkflows == 3

\* Longest node list of a workflow payload.
MaxNodes == 2

-----------------------------------------------------------------------------
(* Strings.                                                                *)

\* String.prototype.includes: k occurs in s as a substring.
Includes(s, k) ==
    \E i \in 1..(Len(s) - Len(k) + 1) : SubSeq(s, i, i + Len(k) - 1) = k

\* One character of String.prototype.toLowerCase.
LowerChar(c) ==
    CASE c = "A" -> "a" [] c = "B" -> "b" [] c = "C" -> "c" [] c = "D" -> "d"
      [] c = "E" -> "e" [] c = "F" -> "f" [] c = "G" -> "g" [] c = "H" -> "h"
      [] c = "I" -> "i" [] c = "J" -> "j" [] c = "K" -> "k" [] c = "L" -> "l"
      [] c = "M" -> "m" [] c = "N" -> "n" [] c = "O" -> "o" [] c = "P" -> "p"
      [] c = "Q" -> "q" [] c = "R" -> "r" [] c = "S" -> "s" [] c = "T" -> "t"
      [] c = "U" -> "u" [] c = "V" -> "v" [] c = "W" -> "w" [] c = "X" -> "x"
      [] c = "Y" -> "y" [] c = "Z" -> "z" [] OTHER -> c

RECURSIVE ToLowerCase(_)
ToLowerCase(s) ==
    IF Len(s) = 0 THEN ""
    ELSE LowerChar(SubSeq(s, 1, 1)) \o ToLowerCase(SubSeq(s, 2, Len(s)))

\* Array.prototype.join over a sequence of strings.
RECURSIVE Join(_, _)
Join(strs, sep) ==
    IF Len(strs) = 0 THEN ""
    ELSE IF Len(strs) = 1 THEN strs[1]
    ELSE strs[1] \o sep \o Join(Tail(strs), sep)

\* n spaces of indentation.
RECURSIVE Spaces(_)
Spaces(n) == IF n = 0 THEN "" ELSE " " \o Spaces(n - 1)

\* A field of a mapping that may lack it.
Has(obj, f) == f \in DOMAIN obj

-----------------------------------------------------------------------------
(* Thrown values and their .message.                                       *)

MsgUndefined == [t |-> "undefined", v |-> ""]

MsgString(s) == [t |-> "string", v |-> s]

\* A .message that is not a string: the number 42.
MsgNumber == [t |-> "number", v |-> "42"]

Vocabulary == {"nodes", "connections", "trigger", "failed"}

WordSeqs == UNION { [1..n -> Vocabulary] : n \in 1..MaxWords }

\* The message strings an error may carry.
MessageStrings ==
    { Join(w, " ") : w \in WordSeqs } \cup {"", "Workflow has no trigger node"}

Messages == { MsgString(s) : s \in MessageStrings } \cup {MsgUndefined, MsgNumber}

ErrNull == [k |-> "null", name |-> "", message |-> MsgUndefined, s |-> ""]

ErrUndefined == [k |-> "undefined", name |-> "", message |-> MsgUndefined, s |-> ""]

\* throw "boom": a primitive string, which has neither .name nor .message.
ErrPrimitive == [k |-> "string", name |-> "", message |-> MsgUndefined, s |-> "boom"]

ErrObject(name, message) == [k |-> "object", name |-> name, message |-> message, s |-> ""]

\* What `catch (error: any)` may receive from an awaited collaborator.
ThrownValues ==
    { ErrObject(n, m) : n \in {"Error", "ZodError"}, m \in Messages }
        \cup {ErrNull, ErrUndefined, ErrPrimitive}

\* What the schema's parse raises: a ZodError, from which a display message
\* can be extracted.
ZodErrors == { ErrObject("ZodError", MsgString(s)) : s \in MessageStrings \ {""} }

\* Reading a property of null or undefined raises a TypeError.
CanReadProperty(e) == e.k \notin {"null", "undefined"}

\* ToBoolean of a .message.
Truthy(m) == (m.t = "string" /\ m.v # "") \/ m.t = "number"

\* Whether m.includes is callable: only a string has the method.
HasIncludes(m) == m.t = "string"

\* A .message inside a template literal.
TemplateString(m) == IF m.t = "undefined" THEN "undefined" ELSE m.v

\* String(error).
StringOf(e) ==
    CASE e.k = "null" -> "null"
      [] e.k = "undefined" -> "undefined"
      [] e.k = "string" -> e.s
      [] OTHER ->
           IF e.message.t = "undefined" \/ e.message.v = "" THEN e.name
           ELSE e.name \o ": " \o e.message.v

-----------------------------------------------------------------------------
(* What a handler's body evaluates to.                                     *)

TextContent(text) == <<[type |-> "text", text |-> text]>>

Success(text) == [kind |-> "return", value |-> [content |-> TextContent(text)]]

Failure(text) ==
    [kind |-> "return", value |-> [content |-> TextContent(text), isError |-> TRUE]]

\* A TypeError raised by the JavaScript runtime.
TypeError == [kind |-> "throw", value |-> [class |-> "TypeError", message |-> ""]]

NoOutcome == [kind |-> "none"]

NoValue == [k |-> "none"]

-----------------------------------------------------------------------------
(* The static guidance text.                                               *)

node_categories == "<node_categories>"

common_patterns == "<common_patterns>"

core_principles == "<core_principles>"

workflow_creation_process == "<workflow_creation_process>"

-----------------------------------------------------------------------------
(* handle_validation_error.                                                *)

\* `error.message || 'Validation error'`
ValidationMessage(error) ==
    IF Truthy(error.message) THEN error.message ELSE MsgString("Validation error")

\* SelectGuidance with the trigger test moved ahead of the others.
SelectGuidanceTriggerFirst(msg) ==
    IF Includes(msg, "trigger") THEN core_principles
    ELSE IF Includes(msg, "nodes") THEN node_categories
    ELSE IF Includes(msg, "connections") THEN common_patterns
    ELSE workflow_creation_process

SelectGuidance(msg) ==
    IF Includes(msg, "nodes") THEN node_categories
    ELSE IF Includes(msg, "connections") THEN common_patterns
    ELSE IF Includes(msg, "trigger") THEN core_principles
    ELSE workflow_creation_process

handle_validation_error(error) ==
    IF ~CanReadProperty(error) THEN TypeError
    ELSE LET error_message == ValidationMessage(error)
         IN  IF ~HasIncludes(error_message) THEN TypeError
             ELSE Failure("Validation error: " \o error_message.v
                          \o "\n\nHere's some guidance that might help:\n\n"
                          \o SelectGuidance(error_message.v))

-----------------------------------------------------------------------------
(* format_output.                                                          *)

\* The values args.verbosity takes when the caller supplies it.
VerbosityValues == {"", "concise", "full", "verbose", "FULL"}

\* config.output_verbosity.
ConfigVerbosity == {"concise", "full"}

\* EffectiveVerbosity with the operands swapped: `config.output_verbosity ||
\* verbosity`.
EffectiveVerbosityConfigFirst(a, config) ==
    IF config # "" THEN config
    ELSE IF Has(a, "verbosity") THEN a.verbosity ELSE ""

\* `verbosity || config.output_verbosity`, verbosity read from a mapping
\* that may lack the field.
EffectiveVerbosity(a, config) ==
    IF Has(a, "verbosity") /\ a.verbosity # "" THEN a.verbosity ELSE config

JsonString(s) == "\"" \o s \o "\""

\* An array of already rendered members, at indentation ind.
JsonArray(members, ind) ==
    IF Len(members) = 0 THEN "[]"
    ELSE "[\n"
         \o Join([i \in 1..Len(members) |-> Spaces(ind + 2) \o members[i]], ",\n")
         \o "\n" \o Spaces(ind) \o "]"

\* An object of <<key, rendered value>> pairs, at indentation ind.
JsonObject(pairs, ind) ==
    IF Len(pairs) = 0 THEN "{}"
    ELSE "{\n"
         \o Join([i \in 1..Len(pairs) |->
                    Spaces(ind + 2) \o JsonString(pairs[i][1]) \o ": " \o pairs[i][2]],
                 ",\n")
         \o "\n" \o Spaces(ind) \o "}"

JsonWorkflow(wf, ind) ==
    JsonObject(
        << <<"id", JsonString(wf.id)>>,
           <<"name", JsonString(wf.name)>>,
           <<"active", IF wf.active THEN "true" ELSE "false">>,
           <<"created_at", JsonString(wf.created_at)>>,
           <<"updated_at", JsonString(wf.updated_at)>>,
           <<"nodes",
             JsonArray([i \in 1..Len(wf.nodes) |->
                          JsonObject(<< <<"type", JsonString(wf.nodes[i].type)>> >>,
                                     ind + 4)],
                       ind + 2)>> >>
        \o (IF Has(wf, "tags")
            THEN << <<"tags",
                      JsonArray([i \in 1..Len(wf.tags) |->
                                   JsonObject(<< <<"name", JsonString(wf.tags[i].name)>> >>,
                                              ind + 4)],
                                ind + 2)>> >>
            ELSE <<>>),
        ind)

\* JSON.stringify(details, null, 2) of what the handlers pass: one workflow
\* or an array of workflows.
JsonStringify(details) ==
    IF details.k = "array"
    THEN JsonArray([i \in 1..Len(details.items) |-> JsonWorkflow(details.items[i], 2)], 0)
    ELSE JsonWorkflow(details.wf, 0)

format_output(summary, details, a, config) ==
    IF EffectiveVerbosity(a, config) = "full"
    THEN summary \o "\n\nFull details:\n" \o JsonStringify(details)
    ELSE summary

-----------------------------------------------------------------------------
(* Workflows as the API Client returns them.                               *)

\* new Date(t).toLocaleString()
ToLocaleString(t) ==
    CASE t = "2024-01-01T00:00:00.000Z" -> "1/1/2024, 12:00:00 AM"
      [] t = "2024-02-01T12:30:00.000Z" -> "2/1/2024, 12:30:00 PM"
      [] OTHER -> "Invalid Date"

TagLists == { << [name |-> "prod"], [name |-> "dev"] >>, <<>> }

Workflow(active, nodes) ==
    [id |-> "wf1", name |-> "Daily report", active |-> active,
     created_at |-> "2024-01-01T00:00:00.000Z",
     updated_at |-> "2024-02-01T12:30:00.000Z",
     nodes |-> nodes]

TriggerAndSet == << [type |-> "n8n-nodes-base.scheduleTrigger"], [type |-> "n8n-nodes-base.set"] >>

\* A workflow with its optional tags field.
Tagged(wf, tags) == [f \in DOMAIN wf \cup {"tags"} |-> IF f = "tags" THEN tags ELSE wf[f]]

\* The members of a list_workflows result.
ListedWorkflows ==
    LET plain == { Workflow(a, TriggerAndSet) : a \in BOOLEAN }
    IN  plain \cup { Tagged(w, << [name |-> "prod"], [name |-> "dev"] >>) : w \in plain }

\* The results of get, create, update, activate and deactivate.
FetchedWorkflows ==
    LET plain == { Workflow(a, n) : a \in BOOLEAN,
                                    n \in {TriggerAndSet, << [type |-> "n8n-nodes-base.set"] >>, <<>>} }
    IN  plain \cup { Tagged(w, t) : w \in plain, t \in TagLists }

WorkflowLists == UNION { [1..n -> ListedWorkflows] : n \in 0..MaxWorkflows }

\* What list_workflows resolves to: an array, or nothing (null or undefined).
ListResults == { [k |-> "array", items |-> l] : l \in WorkflowLists } \cup { [k |-> "null"] }

\* `wf.tags?.map((tag) => tag.name).join(', ') || 'None'`
TagsText(wf) ==
    IF ~Has(wf, "tags") THEN "None"
    ELSE LET joined == Join([i \in 1..Len(wf.tags) |-> wf.tags[i].name], ", ")
         IN  IF joined = "" THEN "None" ELSE joined

\* `error.message || String(error)`, inside a template literal.
ErrorText(error) ==
    IF Truthy(error.message) THEN TemplateString(error.message) ELSE StringOf(error)

\* A catch block that reports the error under a fixed prefix.
CatchAll(prefix, error) ==
    IF ~CanReadProperty(error) THEN TypeError
    ELSE Failure(prefix \o ErrorText(error))

\* The McpError(ErrorCode.InvalidParams, message) a handler raises.
InvalidParams(message) ==
    [kind |-> "throw", value |-> [class |-> "McpError", code |-> "InvalidParams", message |-> message]]

\* MissingId testing for the empty string alone: `args.id === ''`.
MissingIdOnlyEmpty(a) == Has(a, "id") /\ a.id = ""

\* `!args.id`
MissingId(a) == ~Has(a, "id") \/ a.id = ""

Ids == {"", "wf1"}

\* An API Client call when it is made, and when it has settled.
Pending(op) == [op |-> op, status |-> "pending", value |-> NoValue]

Fulfilled(op, value) == [op |-> op, status |-> "ok", value |-> value]

Rejected(op, error) == [op |-> op, status |-> "failed", value |-> error]

\* The calls made so far with the last one, pending, settled as entry.
Settle(entry) == [calls EXCEPT ![Len(calls)] = entry]

Idle == pc = "idle"

\* A handler's invocation ends with what its body evaluated to.
Finish(o) == pc' = "done" /\ outcome' = o

-----------------------------------------------------------------------------
(* handle_list_workflows.                                                  *)

ListArgs == {<<>>} \cup { [verbosity |-> v] : v \in VerbosityValues }

\* ActiveCount with the filter inverted: `!wf.active`.
ActiveCountInverted(workflows) ==
    Cardinality({ i \in 1..Len(workflows) : ~workflows[i].active })

ActiveCount(workflows) == Cardinality({ i \in 1..Len(workflows) : workflows[i].active })

ListSummary(workflows) ==
    "Found " \o ToString(Len(workflows)) \o " workflow"
    \o (IF Len(workflows) # 1 THEN "s" ELSE "")
    \o " (" \o ToString(ActiveCount(workflows)) \o " active, "
    \o ToString(Len(workflows) - ActiveCount(workflows)) \o " inactive):\n\n"

ListEntry(wf, index) ==
    ToString(index) \o ". \"" \o wf.name \o "\" (ID: " \o wf.id \o ")\n"
    \o "   Status: " \o (IF wf.active THEN "Active" ELSE "Inactive") \o "\n"
    \o "   Created: " \o ToLocaleString(wf.created_at) \o "\n"
    \o "   Tags: " \o TagsText(wf)

\* The body of the try block once list_workflows has returned.
ListReturned(workflows, a, config) ==
    IF workflows.k = "null" \/ Len(workflows.items) = 0
    THEN Success("No workflows found.")
    ELSE Success(format_output(
             ListSummary(workflows.items)
             \o Join([i \in 1..Len(workflows.items) |-> ListEntry(workflows.items[i], i)],
                     "\n\n"),
             workflows, a, config))

ListCall ==
    /\ Idle
    /\ \E a \in ListArgs :
         /\ tool' = "list_workflows"
         /\ args' = a
         /\ calls' = <<Pending("list_workflows")>>
         /\ pc' = "list_workflows"
         /\ outcome' = NoOutcome
    /\ UNCHANGED cfg

ListSettle ==
    /\ pc = "list_workflows"
    /\ \/ \E workflows \in ListResults :
            /\ calls' = Settle(Fulfilled("list_workflows", workflows))
            /\ Finish(ListReturned(workflows, args, cfg))
       \/ \E error \in ThrownValues :
            /\ calls' = Settle(Rejected("list_workflows", error))
            /\ Finish(CatchAll("Error listing workflows: ", error))
    /\ UNCHANGED <<tool, args, cfg>>

-----------------------------------------------------------------------------
(* The schema validator and the node validator.                            *)

\* The node types a payload may use.
NodeTypeNames == {"n8n-nodes-base.scheduleTrigger", "n8n-nodes-base.sett", "bogus"}

\* The registry of node types the n8n instance knows.
KnownNodeTypes == {"n8n-nodes-base.scheduleTrigger", "n8n-nodes-base.set"}

NodeLists ==
    UNION { [1..n -> { [type |-> t] : t \in NodeTypeNames }] : n \in 0..MaxNodes }

\* The workflow payloads a caller sends.
Payloads == { [name |-> "Daily report", nodes |-> n] : n \in NodeLists }

\* One InvalidNodeReport; the suggestion is the nearest known type, if any.
InvalidNodeReport(type) ==
    IF type = "n8n-nodes-base.sett"
    THEN [node_type |-> type, suggestion |-> "n8n-nodes-base.set"]
    ELSE [node_type |-> type]

IsUnknownNode(node) == node.type \notin KnownNodeTypes

\* node_validator.validate_workflow_nodes, when it returns: the nodes whose
\* type is not in the registry, in input order.
validate_workflow_nodes(nodes) ==
    LET invalid == SelectSeq(nodes, IsUnknownNode)
    IN  [i \in 1..Len(invalid) |-> InvalidNodeReport(invalid[i].type)]

\* CreateWorkflowInputSchema.parse(args), when it returns.
ParsedCreateInput(a) ==
    [workflow |-> a.workflow, activate |-> IF Has(a, "activate") THEN a.activate ELSE FALSE]

\* HasInvalidNodes off by one: `invalid_nodes.length > 1`.
HasInvalidNodesOffByOne(invalid_nodes) == Len(invalid_nodes) > 1

\* `invalid_nodes.length > 0`
HasInvalidNodes(invalid_nodes) == Len(invalid_nodes) > 0

InvalidNodeLine(node) ==
    "- '" \o node.node_type \o "': Not a valid n8n node. "
    \o (IF Has(node, "suggestion")
        THEN "Did you mean '" \o node.suggestion \o "'?"
        ELSE "No similar nodes found.")

\* The response to a workflow with invalid node types; verb is "creating"
\* or "updating".
InvalidNodesResponse(invalid_nodes, verb) ==
    Failure("Workflow contains invalid node types:\n"
            \o Join([i \in 1..Len(invalid_nodes) |-> InvalidNodeLine(invalid_nodes[i])], "\n")
            \o "\n\nPlease correct these node types before " \o verb \o " the workflow.\n\n"
            \o "Here are the available node categories for reference:\n"
            \o node_categories)

\* The catch block of create and update.
CatchValidation(prefix, error) ==
    IF ~CanReadProperty(error) THEN TypeError
    ELSE IF error.name = "ZodError" THEN handle_validation_error(error)
    ELSE Failure(prefix \o ErrorText(error))

-----------------------------------------------------------------------------
(* handle_create_workflow.                                                 *)

CreateArgs ==
    { w @@ a : w \in {<<>>} \cup { [workflow |-> p] : p \in Payloads },
               a \in {<<>>} \cup { [activate |-> b] : b \in BOOLEAN } }

CreateSucceeded(workflow) ==
    Success("Successfully "
            \o (IF workflow.active THEN "activated" ELSE "created (not activated)")
            \o " workflow \"" \o workflow.name \o "\" (ID: " \o workflow.id \o ")")

\* The schema parse, and on success the call of the node validator.
CreateCall ==
    /\ Idle
    /\ \E a \in CreateArgs :
         /\ tool' = "create_workflow"
         /\ args' = a
         /\ \/ /\ Has(a, "workflow")
               /\ calls' = <<Fulfilled("parse", ParsedCreateInput(a)),
                             Pending("validate_workflow_nodes")>>
               /\ pc' = "create_validate"
               /\ outcome' = NoOutcome
            \/ \E error \in ZodErrors :
                 /\ calls' = <<Rejected("parse", error)>>
                 /\ Finish(CatchValidation("Error creating workflow: ", error))
    /\ UNCHANGED cfg

\* The node validator settles; with no invalid node, create_workflow is called.
CreateValidated ==
    /\ pc = "create_validate"
    /\ \/ LET invalid_nodes == validate_workflow_nodes(calls[1].value.workflow.nodes)
              settled == Settle(Fulfilled("validate_workflow_nodes", invalid_nodes))
          IN  IF HasInvalidNodes(invalid_nodes)
              THEN /\ calls' = settled
                   /\ Finish(InvalidNodesResponse(invalid_nodes, "creating"))
              ELSE /\ calls' = Append(settled, Pending("create_workflow"))
                   /\ pc' = "create_workflow"
                   /\ outcome' = outcome
       \/ \E error \in ThrownValues :
            /\ calls' = Settle(Rejected("validate_workflow_nodes", error))
            /\ Finish(CatchValidation("Error creating workflow: ", error))
    /\ UNCHANGED <<tool, args, cfg>>

CreateSettle ==
    /\ pc = "create_workflow"
    /\ \/ \E workflow \in FetchedWorkflows :
            /\ calls' = Settle(Fulfilled("create_workflow", workflow))
            /\ Finish(CreateSucceeded(workflow))
       \/ \E error \in ThrownValues :
            /\ calls' = Settle(Rejected("create_workflow", error))
            /\ Finish(CatchValidation("Error creating workflow: ", error))
    /\ UNCHANGED <<tool, args, cfg>>

-----------------------------------------------------------------------------
(* handle_get_workflow.                                                    *)

IdArgs == {<<>>} \cup { [id |-> i] : i \in Ids }

GetArgs == { i @@ v : i \in IdArgs, v \in ListArgs }

\* The nodes whose type, case-folded, contains "trigger".
TriggerCount(nodes) ==
    Cardinality({ i \in 1..Len(nodes) : Includes(ToLowerCase(nodes[i].type), "trigger") })

GetSummary(workflow, a) ==
    "Workflow: \"" \o workflow.name \o "\" (ID: " \o a.id \o ")\n"
    \o "Status: " \o (IF workflow.active THEN "Active" ELSE "Inactive") \o "\n"
    \o "Created: " \o ToLocaleString(workflow.created_at) \o "\n"
    \o "Updated: " \o ToLocaleString(workflow.updated_at) \o "\n"
    \o "Nodes: " \o ToString(Len(workflow.nodes)) \o " (including "
    \o ToString(TriggerCount(workflow.nodes)) \o " trigger nodes)\n"
    \o "Tags: " \o TagsText(workflow)

GetCall ==
    /\ Idle
    /\ \E a \in GetArgs :
         /\ tool' = "get_workflow"
         /\ args' = a
         /\ IF MissingId(a)
            THEN /\ calls' = <<>>
                 /\ Finish(InvalidParams("Workflow ID is required"))
            ELSE /\ calls' = <<Pending("get_workflow")>>
                 /\ pc' = "get_workflow"
                 /\ outcome' = NoOutcome
    /\ UNCHANGED cfg

GetSettle ==
    /\ pc = "get_workflow"
    /\ \/ \E workflow \in FetchedWorkflows :
            /\ calls' = Settle(Fulfilled("get_workflow", workflow))
            /\ Finish(Success(format_output(GetSummary(workflow, args),
                                            [k |-> "workflow", wf |-> workflow],
                                            args, cfg)))
       \/ \E error \in ThrownValues :
            /\ calls' = Settle(Rejected("get_workflow", error))
            /\ Finish(CatchAll("Error retrieving workflow: ", error))
    /\ UNCHANGED <<tool, args, cfg>>

-----------------------------------------------------------------------------
(* handle_update_workflow.                                                 *)

UpdateArgs == { i @@ w : i \in IdArgs, w \in {<<>>} \cup { [workflow |-> p] : p \in Payloads } }

\* `!args.id || !args.workflow`
MissingIdOrWorkflow(a) == MissingId(a) \/ ~Has(a, "workflow")

UpdateSucceeded(workflow, a) ==
    Success("Successfully updated workflow \"" \o workflow.name
            \o "\" (ID: " \o a.id \o ", Status: "
            \o (IF workflow.active THEN "active" ELSE "inactive") \o ")")

UpdateCall ==
    /\ Idle
    /\ \E a \in UpdateArgs :
         /\ tool' = "update_workflow"
         /\ args' = a
         /\ IF MissingIdOrWorkflow(a)
            THEN /\ calls' = <<>>
                 /\ Finish(InvalidParams("Workflow ID and updated workflow data are required"))
            ELSE \/ /\ calls' = <<Fulfilled("parse", a.workflow),
                                  Pending("validate_workflow_nodes")>>
                    /\ pc' = "update_validate"
                    /\ outcome' = NoOutcome
                 \/ \E error \in ZodErrors :
                      /\ calls' = <<Rejected("parse", error)>>
                      /\ Finish(CatchValidation("Error updating workflow: ", error))
    /\ UNCHANGED cfg

UpdateValidated ==
    /\ pc = "update_validate"
    /\ \/ LET invalid_nodes == validate_workflow_nodes(calls[1].value.nodes)
              settled == Settle(Fulfilled("validate_workflow_nodes", invalid_nodes))
          IN  IF HasInvalidNodes(invalid_nodes)
              THEN /\ calls' = settled
                   /\ Finish(InvalidNodesResponse(invalid_nodes, "updating"))
              ELSE /\ calls' = Append(settled, Pending("update_workflow"))
                   /\ pc' = "update_workflow"
                   /\ outcome' = outcome
       \/ \E error \in ThrownValues :
            /\ calls' = Settle(Rejected("validate_workflow_nodes", error))
            /\ Finish(CatchValidation("Error updating workflow: ", error))
    /\ UNCHANGED <<tool, args, cfg>>

UpdateSettle ==
    /\ pc = "update_workflow"
    /\ \/ \E workflow \in FetchedWorkflows :
            /\ calls' = Settle(Fulfilled("update_workflow", workflow))
            /\ Finish(UpdateSucceeded(workflow, args))
       \/ \E error \in ThrownValues :
            /\ calls' = Settle(Rejected("update_workflow", error))
            /\ Finish(CatchValidation("Error updating workflow: ", error))
    /\ UNCHANGED <<tool, args, cfg>>

-----------------------------------------------------------------------------
(* handle_delete_workflow.                                                 *)

DeleteCall ==
    /\ Idle
    /\ \E a \in IdArgs :
         /\ tool' = "delete_workflow"
         /\ args' = a
         /\ IF MissingId(a)
            THEN /\ calls' = <<>>
                 /\ Finish(InvalidParams("Workflow ID is required"))
            ELSE /\ calls' = <<Pending("get_workflow")>>
                 /\ pc' = "delete_fetch"
                 /\ outcome' = NoOutcome
    /\ UNCHANGED cfg

\* The fetch settles; once it has returned, delete_workflow is called.
DeleteFetched ==
    /\ pc = "delete_fetch"
    /\ \/ \E workflow \in FetchedWorkflows :
            /\ calls' = Append(Settle(Fulfilled("get_workflow", workflow)),
                               Pending("delete_workflow"))
            /\ pc' = "delete_workflow"
            /\ outcome' = outcome
       \/ \E error \in ThrownValues :
            /\ calls' = Settle(Rejected("get_workflow", error))
            /\ Finish(CatchAll("Error deleting workflow: ", error))
    /\ UNCHANGED <<tool, args, cfg>>

DeleteSettle ==
    /\ pc = "delete_workflow"
    /\ \/ /\ calls' = Settle(Fulfilled("delete_workflow", NoValue))
          /\ Finish(Success("Successfully deleted workflow \"" \o calls[1].value.name
                            \o "\" (ID: " \o args.id \o ")"))
       \/ \E error \in ThrownValues :
            /\ calls' = Settle(Rejected("delete_workflow", error))
            /\ Finish(CatchAll("Error deleting workflow: ", error))
    /\ UNCHANGED <<tool, args, cfg>>

-----------------------------------------------------------------------------
(* handle_activate_workflow and handle_deactivate_workflow.                *)

\* The catch block of activate_workflow.
CatchActivate(error) ==
    IF ~CanReadProperty(error) THEN TypeError
    ELSE IF Truthy(error.message)
    THEN IF ~HasIncludes(error.message) THEN TypeError
         ELSE IF Includes(error.message.v, "trigger")
         THEN Failure("Error activating workflow: " \o error.message.v \o "\n\n"
                      \o "Note: Only workflows with automatic trigger nodes (Schedule, Webhook, etc.) can be activated. "
                      \o "Workflows with only manual triggers cannot be automatically activated.\n\n"
                      \o "Here are some core principles for workflow composition:\n"
                      \o core_principles)
         ELSE Failure("Error activating workflow: " \o ErrorText(error))
    ELSE Failure("Error activating workflow: " \o ErrorText(error))

ActivateCall ==
    /\ Idle
    /\ \E a \in IdArgs :
         /\ tool' = "activate_workflow"
         /\ args' = a
         /\ IF MissingId(a)
            THEN /\ calls' = <<>>
                 /\ Finish(InvalidParams("Workflow ID is required"))
            ELSE /\ calls' = <<Pending("activate_workflow")>>
                 /\ pc' = "activate_workflow"
                 /\ outcome' = NoOutcome
    /\ UNCHANGED cfg

ActivateSettle ==
    /\ pc = "activate_workflow"
    /\ \/ \E workflow \in FetchedWorkflows :
            /\ calls' = Settle(Fulfilled("activate_workflow", workflow))
            /\ Finish(Success("Successfully activated workflow \"" \o workflow.name
                              \o "\" (ID: " \o args.id \o ")"))
       \/ \E error \in ThrownValues :
            /\ calls' = Settle(Rejected("activate_workflow", error))
            /\ Finish(CatchActivate(error))
    /\ UNCHANGED <<tool, args, cfg>>

DeactivateCall ==
    /\ Idle
    /\ \E a \in IdArgs :
         /\ tool' = "deactivate_workflow"
         /\ args' = a
         /\ IF MissingId(a)
            THEN /\ calls' = <<>>
                 /\ Finish(InvalidParams("Workflow ID is required"))
            ELSE /\ calls' = <<Pending("deactivate_workflow")>>
                 /\ pc' = "deactivate_workflow"
                 /\ outcome' = NoOutcome
    /\ UNCHANGED cfg

DeactivateSettle ==
    /\ pc = "deactivate_workflow"
    /\ \/ \E workflow \in FetchedWorkflows :
            /\ calls' = Settle(Fulfilled("deactivate_workflow", workflow))
            /\ Finish(Success("Successfully deactivated workflow \"" \o workflow.name
                              \o "\" (ID: " \o args.id \o ")"))
       \/ \E error \in ThrownValues :
            /\ calls' = Settle(Rejected("deactivate_workflow", error))
            /\ Finish(CatchAll("Error deactivating workflow: ", error))
    /\ UNCHANGED <<tool, args, cfg>>

-----------------------------------------------------------------------------
(* The handlers, invoked one after another by the hosting framework.       *)

Init ==
    /\ pc = "idle"
    /\ tool = "none"
    /\ args = <<>>
    /\ cfg \in ConfigVerbosity
    /\ calls = <<>>
    /\ outcome = NoOutcome

\* The framework takes what the handler returned or raised; the next
\* invocation starts afresh, the handlers keeping no state.
Deliver ==
    /\ pc = "done"
    /\ pc' = "idle"
    /\ tool' = "none"
    /\ args' = <<>>
    /\ calls' = <<>>
    /\ outcome' = NoOutcome
    /\ UNCHANGED cfg

Next ==
    \/ ListCall
    \/ ListSettle
    \/ CreateCall
    \/ CreateValidated
    \/ CreateSettle
    \/ GetCall
    \/ GetSettle
    \/ UpdateCall
    \/ UpdateValidated
    \/ UpdateSettle
    \/ DeleteCall
    \/ DeleteFetched
    \/ DeleteSettle
    \/ ActivateCall
    \/ ActivateSettle
    \/ DeactivateCall
    \/ DeactivateSettle
    \/ Deliver

Spec == Init /\ [][Next]_vars

-----------------------------------------------------------------------------
(* handle_validation_error and format_output applied to drawn inputs.      *)

Summaries == {"", "Found 1 workflow (1 active, 0 inactive):\n\n", "Workflow: \"Daily report\" (ID: wf1)"}

\* The details the handlers pass to format_output.
DetailValues ==
    { [k |-> "array", items |-> l] : l \in WorkflowLists }
        \cup { [k |-> "workflow", wf |-> w] : w \in FetchedWorkflows }

InitValidationError ==
    /\ pc = "idle"
    /\ tool = "handle_validation_error"
    /\ args \in { [error |-> e] : e \in ThrownValues }
    /\ cfg = "concise"
    /\ calls = <<>>
    /\ outcome = NoOutcome

ApplyValidationError ==
    /\ pc = "idle"
    /\ tool = "handle_validation_error"
    /\ Finish(handle_validation_error(args.error))
    /\ UNCHANGED <<tool, args, cfg, calls>>

SpecValidationError == InitValidationError /\ [][ApplyValidationError]_vars

InitFormatOutput ==
    /\ pc = "idle"
    /\ tool = "format_output"
    /\ args \in { [summary |-> s, details |-> d, opts |-> a] :
                    s \in Summaries, d \in DetailValues, a \in ListArgs }
    /\ cfg \in ConfigVerbosity
    /\ calls = <<>>
    /\ outcome = NoOutcome

ApplyFormatOutput ==
    /\ pc = "idle"
    /\ tool = "format_output"
    /\ Finish([kind |-> "return",
               value |-> format_output(args.summary, args.details, args.opts, cfg)])
    /\ UNCHANGED <<tool, args, cfg, calls>>

SpecFormatOutput == InitFormatOutput /\ [][ApplyFormatOutput]_vars

-----------------------------------------------------------------------------
(* Vocabulary of the properties.                                           *)

Done == pc = "done"

Returned == outcome.kind = "return"

Raised == outcome.kind = "throw"

IsErrorSet == Returned /\ Has(outcome.value, "isError") /\ outcome.value.isError

ResponseText == outcome.value.content[1].text

\* One well-formed ToolResponse: a single text item.
IsToolResponse ==
    /\ Returned
    /\ DOMAIN outcome.value \subseteq {"content", "isError"}
    /\ Len(outcome.value.content) = 1
    /\ outcome.value.content[1].type = "text"

InvalidParamsFault ==
    Raised /\ outcome.value.class = "McpError" /\ outcome.value.code = "InvalidParams"

StartsWith(s, prefix) == Len(prefix) <= Len(s) /\ SubSeq(s, 1, Len(prefix)) = prefix

EndsWith(s, suffix) ==
    Len(suffix) <= Len(s) /\ SubSeq(s, Len(s) - Len(suffix) + 1, Len(s)) = suffix

\* The calls of the current invocation that failed.
FailedCalls == { i \in 1..Len(calls) : calls[i].status = "failed" }

\* What a response is to show of a thrown value: its message or, the
\* message absent or empty, the string-coercion of the value.
ErrorDisplay(e) ==
    IF e.k = "object" /\ e.message.t # "undefined" /\ e.message.v # ""
    THEN e.message.v
    ELSE StringOf(e)

HandlerTools ==
    {"list_workflows", "create_workflow", "get_workflow", "update_workflow",
     "delete_workflow", "activate_workflow", "deactivate_workflow"}

-----------------------------------------------------------------------------
(* C1.                                                                     *)

\* The caller asked create_workflow to activate the workflow.
ActivationRequested == tool = "create_workflow" /\ Has(args, "activate") /\ args.activate

\* The operation completed as the caller requested: the API Client call the
\* tool is named after returned, and with the activation that was asked for.
CompletedAsRequested ==
    \E i \in 1..Len(calls) :
        /\ calls[i].op = tool
        /\ calls[i].status = "ok"
        /\ ActivationRequested => calls[i].value.active

\* C1: every invocation that returns returns one ToolResponse, whose isError
\* is set if and only if the operation did not complete as the caller
\* requested (create_workflow asked to activate and given back an inactive
\* workflow included).
C1_IsErrorIffNotCompleted ==
    (Done /\ tool \in HandlerTools /\ Returned)
        => (IsToolResponse /\ (IsErrorSet <=> ~CompletedAsRequested))

-----------------------------------------------------------------------------
(* C2.                                                                     *)

\* C2: whatever value a schema parse, the node validator or an API Client
\* call throws, the handler returns a ToolResponse with isError set whose
\* text shows the error's message or, failing that, the string-coercion of
\* the value; nothing but the invalid-params fault leaves a handler.
C2_EveryFailureBecomesErrorResponse ==
    (Done /\ tool \in HandlerTools)
        => /\ Raised => InvalidParamsFault
           /\ \A i \in FailedCalls :
                /\ IsToolResponse
                /\ IsErrorSet
                /\ Includes(ResponseText, ErrorDisplay(calls[i].value))

-----------------------------------------------------------------------------
(* C3.                                                                     *)

RequiresId == {"get_workflow", "delete_workflow", "activate_workflow", "deactivate_workflow"}

\* The invocation lacks a required argument.
LacksRequiredArgument ==
    \/ tool \in RequiresId /\ ~Has(args, "id")
    \/ tool = "update_workflow" /\ (~Has(args, "id") \/ ~Has(args, "workflow"))

\* C3: invoked without a required id (for update_workflow: id or workflow),
\* a handler raises the invalid-params fault, and neither the API Client
\* nor the node validator (nor the schema parse) has been called.
C3_FaultBeforeAnyCall ==
    LacksRequiredArgument => (Done /\ InvalidParamsFault /\ calls = <<>>)

C3_Witness ==
    /\ Done
    /\ tool = "update_workflow"
    /\ Has(args, "id") /\ args.id = "wf1"
    /\ ~Has(args, "workflow")
    /\ InvalidParamsFault

-----------------------------------------------------------------------------
(* C4.                                                                     *)

FetchFailed ==
    tool = "delete_workflow" /\ calls # <<>> /\ calls[1].status = "failed"

\* C4: in delete_workflow, when the fetch fails the delete call is never
\* made and the response is an isError ToolResponse whose text is
\* 'Error deleting workflow: ' followed by the fetch error's message.
C4_NoDeleteAfterFailedFetch ==
    FetchFailed
        => /\ Len(calls) = 1
           /\ Done
           /\ IsToolResponse
           /\ IsErrorSet
           /\ ResponseText = "Error deleting workflow: " \o ErrorDisplay(calls[1].value)

-----------------------------------------------------------------------------
(* C5.                                                                     *)

RemoteWrites == {"create_workflow", "update_workflow"}

\* The schema parse failed, or the node validator reported an invalid node.
ValidationRefused ==
    /\ calls # <<>>
    /\ \/ calls[1].op = "parse" /\ calls[1].status = "failed"
       \/ /\ Len(calls) >= 2
          /\ calls[2].op = "validate_workflow_nodes"
          /\ calls[2].status = "ok"
          /\ Len(calls[2].value) > 0

\* C5: in create_workflow and update_workflow the API Client's create or
\* update call is made third, after a schema parse that succeeded and a
\* node validation that returned the empty list; when the parse fails or
\* the validator reports an invalid node type the handler returns an
\* isError ToolResponse and the call is never made.
C5_RemoteWriteOnlyAfterValidation ==
    (tool \in RemoteWrites)
        => /\ \A i \in 1..Len(calls) :
                calls[i].op \in RemoteWrites
                    => /\ i = 3
                       /\ calls[1].op = "parse" /\ calls[1].status = "ok"
                       /\ calls[2].op = "validate_workflow_nodes"
                       /\ calls[2].status = "ok"
                       /\ Len(calls[2].value) = 0
           /\ ValidationRefused
                => /\ Done /\ IsToolResponse /\ IsErrorSet
                   /\ \A i \in 1..Len(calls) : calls[i].op \notin RemoteWrites

C5_Witness ==
    /\ Done
    /\ tool = "create_workflow"
    /\ Len(calls) = 2
    /\ calls[2].status = "ok"
    /\ Len(calls[2].value) = 2
    /\ IsErrorSet

-----------------------------------------------------------------------------
(* C6.                                                                     *)

\* The error carries a string message, or none.
HasDisplayMessage(e) == e.k = "object" /\ e.message.t \in {"string", "undefined"}

\* The message shown: the error's, or the fallback when there is none.
DisplayMessage(e) ==
    IF e.message.t = "string" /\ e.message.v # "" THEN e.message.v ELSE "Validation error"

\* The one section the priority order nodes, connections, trigger assigns.
SectionByPriority(m) ==
    CASE Includes(m, "nodes") -> node_categories
      [] ~Includes(m, "nodes") /\ Includes(m, "connections") -> common_patterns
      [] ~Includes(m, "nodes") /\ ~Includes(m, "connections") /\ Includes(m, "trigger")
            -> core_principles
      [] OTHER -> workflow_creation_process

\* C6: handle_validation_error answers with isError set and the text
\* 'Validation error: {message}', the guidance header and exactly the one
\* section of the highest-priority keyword the message contains (nodes,
\* then connections, then trigger, else workflow_creation_process).
C6_OneSectionByPriority ==
    (Done /\ tool = "handle_validation_error" /\ HasDisplayMessage(args.error))
        => /\ IsToolResponse
           /\ IsErrorSet
           /\ ResponseText =
                "Validation error: " \o DisplayMessage(args.error)
                \o "\n\nHere's some guidance that might help:\n\n"
                \o SectionByPriority(DisplayMessage(args.error))

C6_Witness ==
    /\ Done
    /\ tool = "handle_validation_error"
    /\ args.error.k = "object"
    /\ args.error.message = MsgString("trigger connections nodes")
    /\ EndsWith(ResponseText, "\n\n" \o node_categories)

-----------------------------------------------------------------------------
(* C7.                                                                     *)

\* C7: handle_validation_error is total: whatever error it is given (with
\* a string message, with none, with a message that is not a string) it
\* returns a ToolResponse and never raises.
C7_ValidationErrorIsTotal ==
    (Done /\ tool = "handle_validation_error") => IsToolResponse

-----------------------------------------------------------------------------
(* C8.                                                                     *)

FullBlock(details) == "\n\nFull details:\n" \o JsonStringify(details)

\* The output for an effective verbosity: summary followed by the labeled
\* block when it is "full", summary alone otherwise.
OutputFor(effective) ==
    IF effective = "full"
    THEN /\ StartsWith(outcome.value, args.summary)
         /\ outcome.value = args.summary \o FullBlock(args.details)
    ELSE outcome.value = args.summary

\* C8 as stated: the effective verbosity is the verbosity argument whenever
\* one is given, else config.output_verbosity.
C8_ExplicitVerbosityOverrides ==
    (Done /\ tool = "format_output")
        => OutputFor(IF Has(args.opts, "verbosity") THEN args.opts.verbosity ELSE cfg)

\* C8 amended: the effective verbosity is the verbosity argument when one
\* is given and is not empty (is truthy), else config.output_verbosity.
C8_NonEmptyVerbosityOverrides ==
    (Done /\ tool = "format_output")
        => OutputFor(IF Has(args.opts, "verbosity") /\ args.opts.verbosity # ""
                     THEN args.opts.verbosity ELSE cfg)

C8_Witness ==
    /\ Done
    /\ tool = "format_output"
    /\ Has(args.opts, "verbosity") /\ args.opts.verbosity = "concise"
    /\ cfg = "full"
    /\ args.summary # ""
    /\ outcome.value = args.summary

-----------------------------------------------------------------------------
(* C9.                                                                     *)

ActivationNote ==
    "Note: Only workflows with automatic trigger nodes (Schedule, Webhook, etc.) can be activated. "
    \o "Workflows with only manual triggers cannot be automatically activated."

\* The error's message is a string that contains "trigger".
MentionsTrigger(e) ==
    e.k = "object" /\ e.message.t = "string" /\ Includes(e.message.v, "trigger")

\* C9: in activate_workflow a failure whose message contains "trigger" is
\* answered with isError set, the message, the fixed note and the
\* core_principles guidance; any other failure with isError set and the
\* text 'Error activating workflow: {message}' alone.
C9_ActivationFailureResponse ==
    (Done /\ tool = "activate_workflow" /\ FailedCalls # {})
        => LET error == calls[1].value
           IN  /\ IsToolResponse
               /\ IsErrorSet
               /\ IF MentionsTrigger(error)
                  THEN /\ Includes(ResponseText, error.message.v)
                       /\ Includes(ResponseText, ActivationNote)
                       /\ Includes(ResponseText, core_principles)
                  ELSE ResponseText = "Error activating workflow: " \o ErrorDisplay(error)

-----------------------------------------------------------------------------
(* C10.                                                                    *)

\* The list the API Client returned from list_workflows.
ListedItems == calls[1].value.items

ListReturnedArray ==
    /\ Done
    /\ tool = "list_workflows"
    /\ calls[1].status = "ok"
    /\ calls[1].value.k = "array"

RECURSIVE CountActive(_)
CountActive(workflows) ==
    IF Len(workflows) = 0 THEN 0
    ELSE (IF Head(workflows).active THEN 1 ELSE 0) + CountActive(Tail(workflows))

\* C10: list_workflows answers an empty list with the single text item
\* 'No workflows found.' and no isError, and a list of N >= 1 workflows with
\* no isError and a summary of N workflows, A active and N - A inactive, A
\* the number of workflows whose active flag is true.
C10_ListSummaryCounts ==
    ListReturnedArray
        => IF Len(ListedItems) = 0
           THEN outcome = [kind |-> "return",
                           value |-> [content |-> <<[type |-> "text",
                                                     text |-> "No workflows found."]>>]]
           ELSE /\ IsToolResponse
                /\ ~Has(outcome.value, "isError")
                /\ StartsWith(ResponseText,
                       "Found " \o ToString(Len(ListedItems)) \o " workflow"
                       \o (IF Len(ListedItems) = 1 THEN "" ELSE "s") \o " ("
                       \o ToString(CountActive(ListedItems)) \o " active, "
                       \o ToString(Len(ListedItems) - CountActive(ListedItems))
                       \o " inactive)")

C10_Witness ==
    /\ ListReturnedArray
    /\ Len(ListedItems) = 3
    /\ ListedItems[1].active /\ ~ListedItems[2].active /\ ~ListedItems[3].active
    /\ StartsWith(ResponseText, "Found 3 workflows (1 active, 2 inactive)")

====
